---------------------------- MODULE Spec2Model ----------------------------
(***************************************************************************)
(* Impulcifer (src/impulcifer.py): segmentation of a sweep recording,      *)
(* tail and head cropping of impulse responses, zero padding and the two   *)
(* channel orders, and the control flow of main().                         *)
(*                                                                         *)
(* An audio segment is a record [frame_rate, tracks]: frame_rate in frames *)
(* per millisecond (48 is 48 kHz), tracks a sequence of equally long       *)
(* sequences of 16-bit integer samples.  Times handed to a slice are kept  *)
(* exactly, in units of 1/Q frame, so that the fractional delays of DELAYS *)
(* and the truncation int() of a slice position are computed as the code   *)
(* computes them (with exact instead of double arithmetic).                *)
(***************************************************************************)
EXTENDS Integers, Sequences, FiniteSets, TLC

\* src/impulcifer.py:11
CHANNELS == <<"FL", "FR", "FC", "BL", "BR", "SL", "SR">>

\* src/impulcifer.py:14-17: each channel, left and right
IR_ORDER == [k \in 1..(2 * Len(CHANNELS)) |->
               IF k % 2 = 1 THEN <<CHANNELS[(k + 1) \div 2], "left">>
                            ELSE <<CHANNELS[k \div 2], "right">>]

\* Time positions are counted in 1/Q frame: DELAYS has four decimals.
Q == 10000

\* to_float, src/impulcifer.py:56-57: int16 samples are divided by 2 ** 15
FullScale == 32768

\* src/impulcifer.py:21-29, in 1/Q millisecond
DELAYS(speaker) ==
    CASE speaker = "FL" -> 1487
      [] speaker = "FR" -> 1487
      [] speaker = "FC" -> 2557
      [] speaker = "BL" -> 1487
      [] speaker = "BR" -> 1487
      [] speaker = "SL" -> 417
      [] speaker = "SR" -> 417

-----------------------------------------------------------------------------
(* Arithmetic helpers *)

Abs(x) == IF x < 0 THEN -x ELSE x

Min(a, b) == IF a < b THEN a ELSE b

Max(a, b) == IF a > b THEN a ELSE b

\* Python's int() of the quotient a / b, b > 0: truncation toward zero
TruncDiv(a, b) == IF a >= 0 THEN a \div b ELSE -((-a) \div b)

\* Python's round() of a / b for a >= 0, b > 0: halves go to the even integer
RoundHalfEven(a, b) ==
    LET q == a \div b
        r == a % b
    IN  IF 2 * r < b THEN q
        ELSE IF 2 * r > b THEN q + 1
        ELSE IF q % 2 = 0 THEN q ELSE q + 1

\* floor of the square root of n >= 0, by bisection: lo * lo <= n < hi * hi
RECURSIVE IsqrtIn(_, _, _)
IsqrtIn(n, lo, hi) ==
    IF hi - lo <= 1 THEN lo
    ELSE LET mid == (lo + hi) \div 2
         IN  IF mid * mid <= n THEN IsqrtIn(n, mid, hi) ELSE IsqrtIn(n, lo, mid)

Isqrt(n) == IsqrtIn(n, 0, FullScale + 1)

\* The sum of the squares of 16-bit samples, which stops growing at SquareCap:
\* a sum beyond it stands for a level far above every level it is compared with
SquareCap == 1000000000

RECURSIVE SumSquares(_)
SumSquares(d) ==
    IF d = <<>> THEN 0
    ELSE LET rest == SumSquares(Tail(d))
             sq   == Head(d) * Head(d)
         IN  IF rest >= SquareCap - sq THEN SquareCap ELSE rest + sq

RECURSIVE SumSeq(_)
SumSeq(s) == IF s = <<>> THEN 0 ELSE Head(s) + SumSeq(Tail(s))

RECURSIVE MaxSeq(_)
MaxSeq(s) == IF Len(s) = 1 THEN s[1] ELSE Max(Head(s), MaxSeq(Tail(s)))

Zeros(n) == [k \in 1..n |-> 0]

\* Python's s[a:b] on a sequence, a and b frame indexes that may be negative or
\* beyond the end
PySlice(s, a, b) ==
    LET n  == Len(s)
        a1 == IF a < 0 THEN Max(n + a, 0) ELSE Min(a, n)
        b1 == IF b < 0 THEN Max(n + b, 0) ELSE Min(b, n)
    IN  IF b1 <= a1 THEN <<>> ELSE SubSeq(s, a1 + 1, b1)

-----------------------------------------------------------------------------
(* The audio segment operations the program uses *)

Mono(rate, data) == [frame_rate |-> rate, tracks |-> <<data>>]

NumChannels(seg) == Len(seg.tracks)

FrameCount(seg) == IF seg.tracks = <<>> THEN 0 ELSE Len(seg.tracks[1])

\* len(seg): the duration in whole milliseconds, rounded
LenMs(seg) == RoundHalfEven(FrameCount(seg), seg.frame_rate)

\* n milliseconds as a slice position of seg
Ms(seg, n) == n * seg.frame_rate * Q

\* A slice position (1/Q frame) to a frame index: a negative position counts
\* from len(seg), and the frame count is truncated
ParsePosition(seg, pos) ==
    TruncDiv(IF pos < 0 THEN Ms(seg, LenMs(seg)) - Abs(pos) ELSE pos, Q)

\* seg[start:end] with both positions given: each is capped at len(seg), the
\* frames are cut as Python cuts a sequence, and frames that the rounded
\* length promised but the data lacks are filled with silence
GetSlice(seg, start, end) ==
    LET s == ParsePosition(seg, Min(start, Ms(seg, LenMs(seg))))
        e == ParsePosition(seg, Min(end, Ms(seg, LenMs(seg))))
        pad(d) == IF e - s > Len(d) THEN d \o Zeros(e - s - Len(d)) ELSE d
    IN  [frame_rate |-> seg.frame_rate,
         tracks |-> [t \in 1..NumChannels(seg) |-> pad(PySlice(seg.tracks[t], s, e))]]

\* seg[start:]
SliceFrom(seg, start) == GetSlice(seg, start, Ms(seg, LenMs(seg)))

\* seg[:end]
SliceTo(seg, end) == GetSlice(seg, 0, end)

\* seg.split_to_mono()
split_to_mono(seg) == [t \in 1..NumChannels(seg) |-> Mono(seg.frame_rate, seg.tracks[t])]

\* AudioSegment.from_mono_audiosegments(*segs): the segments become the tracks
from_mono_audiosegments(segs) ==
    [frame_rate |-> segs[1].frame_rate, tracks |-> [t \in 1..Len(segs) |-> segs[t].tracks[1]]]

\* from_mono_audiosegments raises when the segments differ in length
SameFrameCounts(segs) == \A a, b \in 1..Len(segs) : FrameCount(segs[a]) = FrameCount(segs[b])

\* seg.rms of a mono segment: the integer root mean square
SegRms(seg) ==
    LET d == seg.tracks[1]
    IN  IF d = <<>> THEN 0 ELSE Isqrt(SumSquares(d) \div Len(d))


-----------------------------------------------------------------------------
(* split_recording, src/impulcifer.py:74-120 *)

\* Number of speakers in each track (line 101)
n_speakers(recording, speakers) == Len(speakers) \div (NumChannels(recording) \div 2)

\* Lines 107-109 with the loop order swapped: the cut to the next signal is
\* taken before the column
RECURSIVE ColumnsCutFirst(_, _, _)
ColumnsCutFirst(remainder, ms, count) ==
    IF count = 0 THEN <<>>
    ELSE <<split_to_mono(SliceTo(SliceFrom(remainder, Ms(remainder, ms)), Ms(remainder, ms)))>>
         \o ColumnsCutFirst(SliceFrom(remainder, Ms(remainder, ms)), ms, count - 1)

\* Lines 107-109: split sections in time to columns, each a list of mono
\* segments, cutting the remainder to the beginning of the next signal
RECURSIVE Columns(_, _, _)
Columns(remainder, ms, count) ==
    IF count = 0 THEN <<>>
    ELSE <<split_to_mono(SliceTo(remainder, Ms(remainder, ms)))>>
         \o Columns(SliceFrom(remainder, Ms(remainder, ms)), ms, count - 1)

\* Lines 115-117: the left and right ear of track pair i in every column
RECURSIVE ColumnLoop(_, _)
ColumnLoop(columns, i) ==
    IF columns = <<>> THEN <<>>
    ELSE <<Head(columns)[i + 1], Head(columns)[i + 2]>> \o ColumnLoop(Tail(columns), i)

\* Lines 114-118: split each track pair by columns
RECURSIVE TrackLoop(_, _, _)
TrackLoop(columns, i, channels) ==
    IF i >= channels THEN <<>>
    ELSE ColumnLoop(columns, i) \o TrackLoop(columns, i + 2, channels)

\* silence_ms is silence_length * 1000
split_recording(recording, test_signal, speakers, silence_ms) ==
    LET ms        == silence_ms + LenMs(test_signal)
        remainder == SliceFrom(recording, Ms(recording, silence_ms))
        columns   == Columns(remainder, ms, n_speakers(recording, speakers))
        tracks    == TrackLoop(columns, 0, NumChannels(recording))
    IN  from_mono_audiosegments(tracks)


-----------------------------------------------------------------------------
(* to_float, normalize and find_peaks as crop_ir_tail and crop_ir_head use   *)
(* them.  Samples are 16-bit integers; a float sample is sample / FullScale. *)

\* seg.normalize() (lines 171, 173, 323): the gain that brings the highest
\* absolute sample to 0.1 dB below full scale, FullScale * 10 ** (-0.1 / 20),
\* here in tenths; each sample is scaled and floored.  A silent segment is
\* returned as it is.
NormalizeTarget == 323929

PeakAmplitude(seg) ==
    LET all == {Abs(seg.tracks[t][k]) : t \in 1..NumChannels(seg), k \in 1..FrameCount(seg)}
    IN  IF all = {} THEN 0 ELSE CHOOSE m \in all : \A x \in all : x <= m

normalize(seg) ==
    LET peak == PeakAmplitude(seg)
    IN  IF peak = 0 THEN seg
        ELSE [frame_rate |-> seg.frame_rate,
              tracks |-> [t \in 1..NumChannels(seg) |->
                            [k \in 1..FrameCount(seg) |->
                               (seg.tracks[t][k] * NormalizeTarget) \div (10 * peak)]]]

\* scipy.signal.find_peaks(x, height=0.1) (lines 171, 173): the local maxima of
\* x, a flat top counted once at its middle, that reach the height; i is the
\* 0-based index under test.  The result is the list of 0-based peak indexes.
RECURSIVE PlateauEnd(_, _)
PlateauEnd(x, ahead) ==
    IF ahead < Len(x) - 1 /\ x[ahead + 1] = x[ahead] THEN PlateauEnd(x, ahead + 1) ELSE ahead

RECURSIVE LocalMaxima(_, _)
LocalMaxima(x, i) ==
    IF i >= Len(x) - 1 THEN <<>>
    ELSE IF x[i] < x[i + 1]
         THEN LET ahead == PlateauEnd(x, i + 1)
              IN  IF x[ahead + 1] < x[i + 1]
                  THEN <<(i + ahead - 1) \div 2>> \o LocalMaxima(x, ahead + 1)
                  ELSE LocalMaxima(x, i + 1)
         ELSE LocalMaxima(x, i + 1)

find_peaks(x) ==
    IF Len(x) < 3 THEN <<>>
    ELSE SelectSeq(LocalMaxima(x, 1), LAMBDA p : 10 * x[p + 1] >= FullScale)

\* The peaks of a mono segment after normalisation (the argument of lines 171
\* and 173)
Peaks(seg) == find_peaks(normalize(seg).tracks[1])


-----------------------------------------------------------------------------
(* crop_ir_tail, src/impulcifer.py:123-155 *)

\* Line 141: the RMS of one window, in 1/FullScale.  A window of a 1 kHz
\* segment is one frame and its RMS is that sample's magnitude, exactly; the
\* segments the model crops are 1 kHz segments.
WindowRms(window) ==
    Isqrt(SumSquares(window) \div Len(window))

\* Lines 136-141: one window per millisecond j = 1 .. len(response) - 1
TailRms(response) ==
    LET data == response.tracks[1]
        n    == response.frame_rate
    IN  [j \in 1..Max(LenMs(response) - 1, 0) |-> WindowRms(PySlice(data, (j - 1) * n, j * n))]

\* The fixed floor 10.0 ** (-60.0 / 10.0) of line 145 in 1/FullScale:
\* 32768 / 10 ** 6 = FloorNum / FloorDen
FloorNum == 512

FloorDen == 15625

\* The factor of line 145
NoiseFactor == 10

\* rms[-10:-1] of line 145
TrailingWindows(rms) == PySlice(rms, -10, -1)

\* Line 145: the noise floor as the fraction num / den (in 1/FullScale), or
\* nan when the trailing slice is empty and its mean is not a number
NoiseFloorOf(windows) ==
    LET c == Len(windows)
        S == SumSeq(windows)
    IN  IF c = 0 THEN [nan |-> TRUE, num |-> 0, den |-> 1]
        ELSE IF NoiseFactor * S * FloorDen >= FloorNum * c
             THEN [nan |-> FALSE, num |-> NoiseFactor * S, den |-> c]
             ELSE [nan |-> FALSE, num |-> FloorNum, den |-> FloorDen]

noise_floor(rms) == NoiseFloorOf(TrailingWindows(rms))

\* rms[j] > noise_floor: never true of nan
AboveFloor(r, floor) == ~floor.nan /\ r * floor.den > floor.num

\* Lines 148-152: end = -1 and the scan for j in range(len(rms) - 1, 1, -1);
\* j is the 0-based window index
RECURSIVE TailScan(_, _, _, _)
TailScan(rms, floor, j, end) ==
    IF j <= 1 THEN end
    ELSE IF AboveFloor(rms[j + 1], floor) THEN end
    ELSE TailScan(rms, floor, j - 1, j)

TailEnd(rms) == TailScan(rms, noise_floor(rms), Len(rms) - 1, -1)

\* Line 155: response[:end]
crop_ir_tail(response) == SliceTo(response, Ms(response, TailEnd(TailRms(response))))

-----------------------------------------------------------------------------
(* crop_ir_head, src/impulcifer.py:158-201 *)

\* speaker[1], the side letter of a channel name
Side(speaker) ==
    CASE speaker \in {"FL", "BL", "SL"} -> "L"
      [] speaker \in {"FR", "BR", "SR"} -> "R"
      [] OTHER -> "C"

\* Lines 194-195: fade_in over 2 / frame_rate / 1000 milliseconds.  The fade
\* covers int(frame_count(ms=duration)) = 0 frames, so no sample is changed;
\* what is left of the call is its last slice seg[duration:], which cuts or
\* fills the segment to its rounded length.
fade_in(seg) == SliceFrom(seg, 0)

\* Lines 198-199: crop to int(len / 1000 * frame_rate) - 1 frames
CropToInteger(seg) == SliceTo(seg, (LenMs(seg) * seg.frame_rate - 1) * Q)

\* Lines 180, 182, 188: whether the ValueError is raised
DirectionError(speaker, peak_left, peak_right) ==
    IF peak_left < peak_right THEN Side(speaker) = "R" ELSE Side(speaker) = "L"

\* The whole function.  error is "IndexError" when an ear has no peak (the
\* [0] of lines 172 and 174), "ValueError" for the direction error, else
\* "none"; peaks and itd are positions in 1/Q frame.
crop_ir_head(left, right, speaker) ==
    LET pl == Peaks(left)
        pr == Peaks(right)
    IN  IF pl = <<>> \/ pr = <<>>
        THEN [error |-> "IndexError", speaker |-> speaker, left |-> left, right |-> right,
              peak_left |-> 0, peak_right |-> 0, itd |-> 0]
        ELSE
        LET peak_left  == pl[1] * Q
            peak_right == pr[1] * Q
            itd        == Abs(peak_left - peak_right)
            delayL     == DELAYS(speaker) * left.frame_rate
            delayR     == DELAYS(speaker) * right.frame_rate
            cutL == IF peak_left < peak_right
                    THEN SliceFrom(left, peak_left - delayL)
                    ELSE SliceFrom(left, peak_left - (delayL + itd))
            cutR == IF peak_left < peak_right
                    THEN SliceFrom(right, peak_right - (delayR + itd))
                    ELSE SliceFrom(right, peak_right - delayR)
        IN  IF DirectionError(speaker, peak_left, peak_right)
            THEN [error |-> "ValueError", speaker |-> speaker, left |-> left, right |-> right,
                  peak_left |-> peak_left, peak_right |-> peak_right, itd |-> itd]
            ELSE [error |-> "none", speaker |-> speaker,
                  left |-> CropToInteger(fade_in(cutL)),
                  right |-> CropToInteger(fade_in(cutR)),
                  peak_left |-> peak_left, peak_right |-> peak_right, itd |-> itd]

-----------------------------------------------------------------------------
(* zero_pad, src/impulcifer.py:204-214 *)

\* Lines 206-208 with the silence put in front of the samples
zero_pad_front(seg, max_samples, fs) ==
    Mono(fs, Zeros(max_samples - Len(seg.tracks[1])) \o seg.tracks[1])

zero_pad(seg, max_samples, fs) ==
    Mono(fs, seg.tracks[1] \o Zeros(max_samples - Len(seg.tracks[1])))


-----------------------------------------------------------------------------
(* State.  split, tail and head hold one call of split_recording,          *)
(* crop_ir_tail (applied twice) and crop_ir_head: the arguments, the        *)
(* locals and the return value.  The other variables are main()'s.          *)

VARIABLES split, tail, head

callVars == <<split, tail, head>>

\* main(): args are the keyword arguments (a flag, or whether a parameter is
\* given and true), files what the named files and parameters hold, pc the
\* place in main, err the exception that ended it, out the files written,
\* locals the names bound to an AudioSegment, bypassed the channel pairs that
\* took the else branch of line 405; the rest are main's locals.
VARIABLES pc, args, files, err, out, locals, preprocessed, responses, cropped, i,
          bypassed, padded, standard, hesuvi

mainVars == <<pc, args, files, err, out, locals, preprocessed, responses, cropped, i,
              bypassed, padded, standard, hesuvi>>

vars == <<split, tail, head, pc, args, files, err, out, locals, preprocessed, responses,
          cropped, i, bypassed, padded, standard, hesuvi>>

NoAudio == [frame_rate |-> 1, tracks |-> <<>>]

\* head.result before crop_ir_head has returned
NoResult(speaker) ==
    [error |-> "pending", speaker |-> speaker, left |-> NoAudio, right |-> NoAudio,
     peak_left |-> 0, peak_right |-> 0, itd |-> 0]

Idle == [phase |-> "idle"]

-----------------------------------------------------------------------------
(* Bounds of the inputs *)

MaxPairs == 2       \* track pairs of a recording handed to split_recording
MaxPerTrack == 3    \* speakers in each track pair
MaxRate == 2        \* frame rates 1 .. MaxRate kHz of a recording
MaxSilenceMs == 2   \* silence gap, milliseconds
MaxTestMs == 2      \* length of the test signal, milliseconds
MaxExtraMs == 1     \* recording beyond the last column, milliseconds
MaxTailMs == 11     \* length of a response handed to crop_ir_tail
MaxOnset == 14      \* latest onset (frame index) of a response handed to crop_ir_head

\* The reference rate of the delays ("@48kHz", line 20), frames per millisecond
ReferenceRate == 48

\* Sample magnitudes of the responses handed to crop_ir_tail: silence and signal
TailLevels == {0, 30}

\* Height of the impulse of a synthetic response
Impulse == 1000

-----------------------------------------------------------------------------
(* One call of split_recording *)

\* A recording whose sample in track t, frame f is t * 1000 + f: every sample
\* names its own place
CodedRecording(tracks, rate, ms) ==
    [frame_rate |-> rate,
     tracks |-> [t \in 1..tracks |-> [f \in 1..(ms * rate) |-> t * 1000 + f]]]

\* The recording layout of the docstring (line 95): silence, then for every
\* speaker of a track pair the test signal and silence
SplitInit ==
    \E p \in 1..MaxPairs, n \in 1..MaxPerTrack, rate \in 1..MaxRate,
       gap \in 0..MaxSilenceMs, t \in 1..MaxTestMs, extra \in 0..MaxExtraMs :
        /\ n * p <= Len(CHANNELS)
        /\ split = [phase |-> "call",
                    recording |-> CodedRecording(2 * p, rate, gap + n * (gap + t) + extra),
                    test_signal |-> Mono(rate, [f \in 1..(t * rate) |-> f]),
                    speakers |-> SubSeq(CHANNELS, 1, n * p),
                    silence_length |-> gap,
                    result |-> NoAudio]

SplitCall ==
    /\ split.phase = "call"
    /\ split' = [split EXCEPT
                   !.phase = "return",
                   !.result = split_recording(split.recording, split.test_signal,
                                              split.speakers, split.silence_length)]
    /\ UNCHANGED <<tail, head>>
    /\ UNCHANGED mainVars

-----------------------------------------------------------------------------
(* crop_ir_tail applied to a response and again to what it returned *)

TailInit ==
    \E ms \in 2..MaxTailMs :
      \E data \in [1..ms -> TailLevels] :
        tail = [phase |-> "call", response |-> Mono(1, data),
                rms |-> <<>>, noise_floor |-> NoiseFloorOf(<<>>),
                cropped |-> NoAudio, recropped |-> NoAudio]

TailCall ==
    /\ tail.phase = "call"
    /\ tail' = [tail EXCEPT
                  !.phase = "cropped",
                  !.rms = TailRms(tail.response),
                  !.noise_floor = noise_floor(TailRms(tail.response)),
                  !.cropped = crop_ir_tail(tail.response)]
    /\ UNCHANGED <<split, head>>
    /\ UNCHANGED mainVars

TailCallAgain ==
    /\ tail.phase = "cropped"
    /\ tail' = [tail EXCEPT
                  !.phase = "recropped",
                  !.recropped = crop_ir_tail(tail.cropped)]
    /\ UNCHANGED <<split, head>>
    /\ UNCHANGED mainVars

-----------------------------------------------------------------------------
(* One call of crop_ir_head *)

\* A response of ms milliseconds that is silent but for one impulse at frame
\* index onset (0-based)
ImpulseResponse(rate, ms, onset) ==
    Mono(rate, [k \in 1..(ms * rate) |-> IF k = onset + 1 THEN Impulse ELSE 0])

\* Long enough to hold every onset and a frame after it
HeadMs(rate) == (MaxOnset + 2) \div rate + 1

HeadInit ==
    \E rate \in {1, ReferenceRate}, ol \in 1..MaxOnset, or \in 1..MaxOnset,
       sp \in 1..Len(CHANNELS) :
        head = [phase |-> "call",
                left |-> ImpulseResponse(rate, HeadMs(rate), ol),
                right |-> ImpulseResponse(rate, HeadMs(rate), or),
                speaker |-> CHANNELS[sp],
                result |-> NoResult(CHANNELS[sp])]

HeadCall ==
    /\ head.phase = "call"
    /\ head' = [head EXCEPT
                  !.phase = "return",
                  !.result = crop_ir_head(head.left, head.right, head.speaker)]
    /\ UNCHANGED <<split, tail>>
    /\ UNCHANGED mainVars

-----------------------------------------------------------------------------
(* Specifications of the single functions *)

MainIdle ==
    /\ pc = "idle"
    /\ args = Idle
    /\ files = Idle
    /\ err = "none"
    /\ out = {}
    /\ locals = {}
    /\ preprocessed = NoAudio
    /\ responses = NoAudio
    /\ cropped = <<>>
    /\ i = 0
    /\ bypassed = {}
    /\ padded = <<>>
    /\ standard = NoAudio
    /\ hesuvi = NoAudio

InitSplit == SplitInit /\ tail = Idle /\ head = Idle /\ MainIdle

NextSplit == SplitCall

SpecSplit == InitSplit /\ [][NextSplit]_vars

InitTail == TailInit /\ split = Idle /\ head = Idle /\ MainIdle

NextTail == TailCall \/ TailCallAgain

SpecTail == InitTail /\ [][NextTail]_vars

InitHead == HeadInit /\ split = Idle /\ tail = Idle /\ MainIdle

NextHead == HeadCall

SpecHead == InitHead /\ [][NextHead]_vars

-----------------------------------------------------------------------------
(* main(), src/impulcifer.py:249-438: constants and inputs *)

\* Lines 361 and 396: a track is processed when its rms is above 2
RmsThreshold == 2

\* Line 421-422 with FC-left written twice and FC-right left out
hesuvi_order_repeated ==
    << <<"FL", "left">>, <<"FL", "right">>, <<"SL", "left">>, <<"SL", "right">>,
       <<"BL", "left">>, <<"BL", "right">>, <<"FC", "left">>, <<"FR", "right">>,
       <<"FR", "left">>, <<"SR", "right">>, <<"SR", "left">>, <<"BR", "right">>,
       <<"BR", "left">>, <<"FC", "left">> >>

\* Lines 421-422
hesuvi_order ==
    << <<"FL", "left">>, <<"FL", "right">>, <<"SL", "left">>, <<"SL", "right">>,
       <<"BL", "left">>, <<"BL", "right">>, <<"FC", "left">>, <<"FR", "right">>,
       <<"FR", "left">>, <<"SR", "right">>, <<"SR", "left">>, <<"BR", "right">>,
       <<"BR", "left">>, <<"FC", "right">> >>

\* list.index(x), 1-based: the first place of x
IndexOf(seq, x) == CHOOSE k \in 1..Len(seq) : seq[k] = x /\ \A j \in 1..(k - 1) : seq[j] # x

InSeq(seq, x) == \E k \in 1..Len(seq) : seq[k] = x

\* AudioSegment.silent(duration, frame_rate) of line 317
Silent(ms, rate) == Mono(rate, Zeros(ms * rate))

MaxExcited == 2      \* channel pairs of a responses file that are not silent
ResponseMs == 16     \* length of the responses of a responses file, at 1 kHz
MainSilenceMs == 10  \* silence gap of the recordings handed to main
MainTestMs == 6      \* length of the test signal handed to main

\* A response with an impulse at frame index onset and its decay in the next
\* frame, silent elsewhere
ImpulseData(onset, frames) ==
    [k \in 1..frames |-> IF k = onset + 1 THEN Impulse
                         ELSE IF k = onset + 2 THEN Impulse \div 10 ELSE 0]

\* The left and right ear response of one channel pair, by kind
PairKinds == {"silent", "left_first", "right_first", "together", "right_quiet"}

PairOfKind(kind, frames) ==
    CASE kind = "left_first"  -> <<ImpulseData(1, frames), ImpulseData(2, frames)>>
      [] kind = "right_first" -> <<ImpulseData(2, frames), ImpulseData(1, frames)>>
      [] kind = "together"    -> <<ImpulseData(1, frames), ImpulseData(1, frames)>>
      [] kind = "right_quiet" -> <<ImpulseData(1, frames),
                                   [k \in 1..frames |-> RmsThreshold]>>
      [] OTHER                -> <<Zeros(frames), Zeros(frames)>>

\* A 1 kHz responses file of 2 * len(CHANNELS) tracks; kinds maps some channel
\* pairs (1-based) to their kind, the others are silent
ResponseFile(kinds, frames) ==
    [frame_rate |-> 1,
     tracks |-> [c \in 1..(2 * Len(CHANNELS)) |->
                   LET q == (c + 1) \div 2
                   IN  PairOfKind(IF q \in DOMAIN kinds THEN kinds[q] ELSE "silent", frames)
                                 [2 - (c % 2)]]]

ResponseFiles ==
    {ResponseFile(kinds, ResponseMs) :
       kinds \in UNION {[S -> PairKinds \ {"silent"}] :
                          S \in {T \in SUBSET (1..Len(CHANNELS)) : Cardinality(T) <= MaxExcited}}}

\* The responses files of the runs of main that vary its arguments: a silent
\* file, a file that aligns, a file whose FL pair has its onsets on the wrong side
MainResponseFiles ==
    {ResponseFile(<<>>, ResponseMs),
     ResponseFile(<<"left_first", "right_first">>, ResponseMs),
     ResponseFile(<<"right_first">>, ResponseMs)}

MainSpeakerLists == {<<"FL">>, <<"FL", "FR">>, <<"SR", "FC">>}

HeadphoneFrames == {2, 4}

Flags == {"measure", "preprocess", "deconvolve", "postprocess", "equalize"}

Parameters == {"recording", "test", "responses", "speakers", "silence_length", "headphones"}

\* What the files and parameters of an invocation hold; a parameter that is
\* not given holds nothing
FilesOf(a) ==
    {[speakers |-> sp,
      silence_length |-> IF a.silence_length THEN MainSilenceMs ELSE 0,
      recording |-> IF a.recording
                    THEN CodedRecording(2, 1, MainSilenceMs
                           + Max(Len(sp), 1) * (MainSilenceMs + MainTestMs))
                    ELSE NoAudio,
      test |-> t, responses |-> resp, headphones |-> hp] :
        sp \in (IF a.speakers THEN MainSpeakerLists ELSE {<<>>}),
        t \in (IF a.test THEN {Mono(rate, [f \in 1..(MainTestMs * rate) |-> f]) : rate \in 1..MaxRate}
               ELSE {NoAudio}),
        resp \in (IF a.responses THEN MainResponseFiles ELSE {NoAudio}),
        hp \in (IF a.headphones
                THEN {[frame_rate |-> 1, tracks |-> <<Zeros(n), Zeros(n)>>] : n \in HeadphoneFrames}
                ELSE {NoAudio})}

-----------------------------------------------------------------------------
(* main(): the steps *)

Raise(e) ==
    /\ pc' = "raised"
    /\ err' = e

\* Lines 261-285: measure is not implemented; the parameter checks
ParameterChecks ==
    /\ pc = "start"
    /\ IF args.measure
       THEN Raise("NotImplementedError")
       ELSE IF \/ (args.preprocess \/ args.postprocess) /\ ~args.speakers
               \/ args.preprocess /\ ~(args.recording \/ args.measure)
               \/ args.preprocess /\ ~args.test
               \/ args.preprocess /\ ~args.silence_length
               \/ args.deconvolve /\ ~args.recording
               \/ args.deconvolve /\ ~args.test
               \/ args.postprocess /\ ~(args.responses \/ args.deconvolve)
               \/ args.equalize /\ ~args.headphones
            THEN Raise("TypeError")
            ELSE pc' = "read" /\ err' = err
    /\ UNCHANGED <<args, files, out, locals, preprocessed, responses, cropped, i,
                   bypassed, padded, standard, hesuvi>>
    /\ UNCHANGED callVars

\* Lines 287-297: the files that are read into AudioSegments
ReadFiles ==
    /\ pc = "read"
    /\ locals' = {n \in {"recording", "test", "responses"} :
                    \/ n = "recording" /\ args.preprocess /\ args.recording
                    \/ n = "test" /\ (args.preprocess \/ args.deconvolve) /\ args.test
                    \/ n = "responses" /\ args.postprocess /\ args.responses}
    /\ responses' = IF args.postprocess /\ args.responses THEN files.responses ELSE responses
    /\ pc' = "preprocess"
    /\ UNCHANGED <<args, files, err, out, preprocessed, cropped, i, bypassed, padded,
                   standard, hesuvi>>
    /\ UNCHANGED callVars

\* Lines 310-320: the sweeps in IR_ORDER, silence for the channels not in speakers
Reordered(sweeps, speakers) ==
    LET sweep_order == [k \in 1..(2 * Len(speakers)) |->
                          IF k % 2 = 1 THEN <<speakers[(k + 1) \div 2], "left">>
                                       ELSE <<speakers[k \div 2], "right">>]
    IN  [c \in 1..Len(IR_ORDER) |->
           IF ~InSeq(sweep_order, IR_ORDER[c])
           THEN Silent(LenMs(sweeps[1]), sweeps[1].frame_rate)
           ELSE sweeps[IndexOf(sweep_order, IR_ORDER[c])]]

\* Lines 303-341
Preprocess ==
    /\ pc = "preprocess"
    /\ IF args.preprocess
       THEN LET sweeps == split_to_mono(split_recording(files.recording, files.test,
                                                        files.speakers, files.silence_length))
            IN  /\ preprocessed' = normalize(from_mono_audiosegments(
                                               Reordered(sweeps, files.speakers)))
                /\ locals' = locals \cup {"preprocessed"}
                /\ out' = out \cup {"out/preprocessed.wav", "out/tests.wav"}
       ELSE UNCHANGED <<preprocessed, locals, out>>
    /\ pc' = "deconvolve"
    /\ UNCHANGED <<args, files, err, responses, cropped, i, bypassed, padded, standard, hesuvi>>
    /\ UNCHANGED callVars

\* The kinds of response deconv may return for a track pair.  deconv (lines
\* 217-246) divides spectra; its numbers are not computed here, any of these
\* responses may come out of it.
DeconvKinds == {"left_first", "right_first", "together"}

\* Lines 343-381.  preprocessed is bound only when the pre-processing of this
\* invocation has run.
Deconvolve ==
    /\ pc = "deconvolve"
    /\ IF ~args.deconvolve
       THEN pc' = "postprocess" /\ UNCHANGED <<err, responses, locals, out>>
       ELSE IF "preprocessed" \notin locals
       THEN Raise("UnboundLocalError") /\ UNCHANGED <<responses, locals, out>>
       ELSE IF preprocessed.frame_rate # files.test.frame_rate
       THEN Raise("ValueError: sampling frequencies") /\ UNCHANGED <<responses, locals, out>>
       ELSE LET lines  == split_to_mono(preprocessed)
                frames == FrameCount(preprocessed)
                loud   == {q \in 1..Len(CHANNELS) :
                             \/ SegRms(lines[2 * q - 1]) > RmsThreshold
                             \/ SegRms(lines[2 * q]) > RmsThreshold}
            IN  \E kinds \in [loud -> DeconvKinds] :
                  /\ responses' = from_mono_audiosegments(
                       [c \in 1..Len(lines) |->
                          IF SegRms(lines[c]) > RmsThreshold
                          THEN Mono(preprocessed.frame_rate,
                                    PairOfKind(kinds[(c + 1) \div 2], frames)[2 - (c % 2)])
                          ELSE lines[c]])
                  /\ locals' = locals \cup {"responses"}
                  /\ out' = out \cup {"out/responses.wav"}
                  /\ pc' = "postprocess"
                  /\ err' = err
    /\ UNCHANGED <<args, files, preprocessed, cropped, i, bypassed, padded, standard, hesuvi>>
    /\ UNCHANGED callVars

\* Lines 384-392: the start of post-processing
Postprocess ==
    /\ pc = "postprocess"
    /\ IF args.postprocess
       THEN pc' = "crop" /\ cropped' = <<>> /\ i' = 0
       ELSE pc' = "equalize" /\ UNCHANGED <<cropped, i>>
    /\ UNCHANGED <<args, files, err, out, locals, preprocessed, responses, bypassed, padded,
                   standard, hesuvi>>
    /\ UNCHANGED callVars

\* Line 396 with "and" made "or"
ProcessedIfEither(left, right) == SegRms(left) > RmsThreshold \/ SegRms(right) > RmsThreshold

\* Line 396: the pair is cropped when both ears are above the threshold
Processed(left, right) == SegRms(left) > RmsThreshold /\ SegRms(right) > RmsThreshold

\* Lines 406-407: the first millisecond of a track
Placeholder(seg) == SliceTo(seg, Ms(seg, 1))

\* Lines 393-408: one pass of the loop, for the tracks i and i + 1
CropPair ==
    /\ pc = "crop"
    /\ i < NumChannels(responses)
    /\ LET left  == split_to_mono(responses)[i + 1]
           right == split_to_mono(responses)[i + 2]
       IN  IF Processed(left, right)
           THEN LET r == crop_ir_head(crop_ir_tail(left), crop_ir_tail(right),
                                      CHANNELS[(i \div 2) + 1])
                IN  IF r.error = "none"
                    THEN /\ cropped' = cropped \o <<r.left, r.right>>
                         /\ i' = i + 2
                         /\ UNCHANGED <<pc, err, bypassed>>
                    ELSE /\ Raise(IF r.error = "ValueError" THEN "ValueError: direction"
                                  ELSE "IndexError: no peak")
                         /\ UNCHANGED <<cropped, i, bypassed>>
           ELSE /\ cropped' = cropped \o <<Placeholder(left), Placeholder(right)>>
                /\ bypassed' = bypassed \cup {i \div 2}
                /\ i' = i + 2
                /\ UNCHANGED <<pc, err>>
    /\ UNCHANGED <<args, files, out, locals, preprocessed, responses, padded, standard, hesuvi>>
    /\ UNCHANGED callVars

\* Lines 410-424: zero pad to the longest, write both channel orders
Pack ==
    /\ pc = "crop"
    /\ i >= NumChannels(responses)
    /\ LET fs          == responses.frame_rate
           max_samples == MaxSeq([k \in 1..Len(cropped) |-> Len(cropped[k].tracks[1])])
           pad         == [k \in 1..Len(cropped) |-> zero_pad(cropped[k], max_samples, fs)]
       IN  /\ padded' = pad
           /\ standard' = from_mono_audiosegments(pad)
           /\ hesuvi' = from_mono_audiosegments(
                          [k \in 1..Len(hesuvi_order) |-> pad[IndexOf(IR_ORDER, hesuvi_order[k])]])
    /\ out' = out \cup {"out/hrir.wav", "out/hesuvi.wav"}
    /\ pc' = "equalize"
    /\ UNCHANGED <<args, files, err, locals, preprocessed, responses, cropped, i, bypassed>>
    /\ UNCHANGED callVars

\* fft, lines 32-38: the length of the frequency axis f for nfft > 0 samples
FrequencyBins(nfft) == Min(nfft - 1, (nfft + 1) \div 2)

\* Lines 426-438.  "if f == 0.0" compares the whole axis: with two or more
\* bins the truth value of the comparison is a ValueError.
Equalize ==
    /\ pc = "equalize"
    /\ IF ~args.equalize
       THEN pc' = "done" /\ UNCHANGED <<err, out>>
       ELSE IF FrequencyBins(FrameCount(files.headphones)) >= 2
       THEN Raise("ValueError: truth value") /\ out' = out
       ELSE /\ out' = out \cup {"out/headphones-left.csv", "out/headphones-right.csv"}
            /\ pc' = "done"
            /\ err' = err
    /\ UNCHANGED <<args, files, locals, preprocessed, responses, cropped, i, bypassed, padded,
                   standard, hesuvi>>
    /\ UNCHANGED callVars

-----------------------------------------------------------------------------
(* Specifications of main *)

MainStart ==
    /\ pc = "start"
    /\ err = "none"
    /\ out = {}
    /\ locals = {}
    /\ preprocessed = NoAudio
    /\ responses = NoAudio
    /\ cropped = <<>>
    /\ i = 0
    /\ bypassed = {}
    /\ padded = <<>>
    /\ standard = NoAudio
    /\ hesuvi = NoAudio
    /\ split = Idle
    /\ tail = Idle
    /\ head = Idle

\* Every invocation: each flag set or not, each parameter given or not
Init ==
    /\ args \in [Flags \cup Parameters -> BOOLEAN]
    /\ files \in FilesOf(args)
    /\ MainStart

Next ==
    \/ ParameterChecks
    \/ ReadFiles
    \/ Preprocess
    \/ Deconvolve
    \/ Postprocess
    \/ CropPair
    \/ Pack
    \/ Equalize

Spec == Init /\ [][Next]_vars

\* Post-processing alone, main(postprocess=True, speakers=..., responses=...),
\* over the responses files
InitPost ==
    /\ args = [n \in Flags \cup Parameters |-> n \in {"postprocess", "speakers", "responses"}]
    /\ \E resp \in ResponseFiles :
         files = [speakers |-> <<"FL", "FR">>, silence_length |-> 0, recording |-> NoAudio,
                  test |-> NoAudio, responses |-> resp, headphones |-> NoAudio]
    /\ MainStart

SpecPost == InitPost /\ [][Next]_vars

-----------------------------------------------------------------------------
(* Claims about split_recording (SpecSplit) *)

\* C1: split_recording returns 2 * len(speakers) mono excerpts in the order of
\* speakers; excerpts 2k and 2k+1 are the left and right ear track of
\* speakers[k]: the column of silence_gap + len(test_signal) milliseconds that
\* starts at silence_gap + (k mod n) * (silence_gap + len(test_signal)), of
\* track pair k div n, sample for sample.
C1_SplitOrder ==
    split.phase = "return" =>
        LET rec  == split.recording
            n    == Len(split.speakers) \div (NumChannels(rec) \div 2)
            ms   == split.silence_length + LenMs(split.test_signal)
            rate == rec.frame_rate
        IN  /\ NumChannels(split.result) = 2 * Len(split.speakers)
            /\ \A k \in 0..(Len(split.speakers) - 1), ear \in 0..1 :
                 split.result.tracks[2 * k + ear + 1] =
                   [f \in 1..(ms * rate) |->
                      rec.tracks[2 * (k \div n) + ear + 1]
                                [(split.silence_length + (k % n) * ms) * rate + f]]

\* C1's case: several track pairs, several speakers in each, a silence gap
C1_Witness ==
    /\ split.phase = "return"
    /\ NumChannels(split.recording) = 4
    /\ Len(split.speakers) = 6
    /\ split.silence_length > 0
    /\ split.recording.frame_rate = 2

-----------------------------------------------------------------------------
(* Claims about crop_ir_head (SpecHead) *)

\* The first detected onset of a returned buffer, in 1/Q frame; -Q * Q when
\* no onset is detected
OnsetOf(seg) ==
    IF FrameCount(seg) = 0 \/ Peaks(seg) = <<>> THEN -(Q * Q) ELSE Peaks(seg)[1] * Q

\* C2: whenever crop_ir_head returns without error, the near ear's onset in
\* the returned buffer lies at DELAYS[speaker] and the far ear's at
\* DELAYS[speaker] + ITD, each within one sample.
C2_HeadAlignment ==
    (head.phase = "return" /\ head.result.error = "none") =>
        LET r     == head.result
            delay == DELAYS(r.speaker) * head.left.frame_rate
            near  == IF r.peak_left < r.peak_right THEN r.left ELSE r.right
            far   == IF r.peak_left < r.peak_right THEN r.right ELSE r.left
        IN  /\ Abs(OnsetOf(near) - delay) <= Q
            /\ Abs(OnsetOf(far) - (delay + r.itd)) <= Q

\* C3: the direction error is raised exactly when the later onset is on the
\* position's own side: for FL, BL, SL if and only if the left-ear onset is
\* later than the right-ear onset, for FR, BR, SR if and only if the right-ear
\* onset is later; equal onsets are accepted, the center is never rejected.
C3_DirectionError ==
    (head.phase = "return" /\ head.result.error \in {"none", "ValueError"}) =>
        LET r == head.result
        IN  (r.error = "ValueError") <=>
              \/ Side(r.speaker) = "L" /\ r.peak_left > r.peak_right
              \/ Side(r.speaker) = "R" /\ r.peak_right > r.peak_left

-----------------------------------------------------------------------------
(* Claims about crop_ir_tail (SpecTail) *)

\* C4: cropping the tail of an already cropped buffer leaves its length as it is.
C4_TailIdempotent ==
    tail.phase = "recropped" => FrameCount(tail.recropped) = FrameCount(tail.cropped)

\* C5: the noise floor is max(10 * mean of the RMS of the last 10 windows,
\* 10^-6), the final window of the buffer included.
C5_NoiseFloorLastTen ==
    (tail.phase = "cropped" /\ Len(tail.rms) >= 10) =>
        LET claimed == NoiseFloorOf(PySlice(tail.rms, -10, Len(tail.rms)))
        IN  /\ ~tail.noise_floor.nan
            /\ tail.noise_floor.num * claimed.den = claimed.num * tail.noise_floor.den


-----------------------------------------------------------------------------
(* Claims about post-processing (SpecPost) *)

\* C6: after the packing step all padded buffers have the same length, the
\* maximum of the lengths before padding; each buffer's own samples are
\* unchanged at its start and every sample after them is zero.
C6_PackingLength ==
    padded # <<>> =>
        LET longest == MaxSeq([k \in 1..Len(cropped) |-> FrameCount(cropped[k])])
        IN  /\ Len(padded) = Len(cropped)
            /\ Len(padded) = Len(IR_ORDER)
            /\ \A k \in 1..Len(padded) :
                 LET before == cropped[k].tracks[1]
                     after  == padded[k].tracks[1]
                 IN  /\ Len(after) = longest
                     /\ SubSeq(after, 1, Len(before)) = before
                     /\ \A j \in (Len(before) + 1)..longest : after[j] = 0

\* C6's case: buffers of three different lengths, a shorter one with signal in it
C6_Witness ==
    /\ padded # <<>>
    /\ Cardinality({FrameCount(cropped[k]) : k \in 1..Len(cropped)}) >= 3
    /\ \E a, b \in 1..Len(cropped) :
         /\ FrameCount(cropped[a]) < FrameCount(cropped[b])
         /\ \E j \in 1..FrameCount(cropped[a]) : cropped[a].tracks[1][j] # 0

\* How often a track occurs among the tracks of a segment
Occurrences(seg, track) == Cardinality({k \in 1..NumChannels(seg) : seg.tracks[k] = track})

\* C7: the HeSuVi order is a permutation of the canonical order: hesuvi_order
\* names each IR_ORDER slot exactly once, and the HeSuVi output holds each
\* padded canonical buffer exactly as often as the canonical output does.
C7_HesuviPermutation ==
    "out/hesuvi.wav" \in out =>
        /\ Len(hesuvi_order) = Len(IR_ORDER)
        /\ \A k \in 1..Len(IR_ORDER) :
             Cardinality({j \in 1..Len(hesuvi_order) : hesuvi_order[j] = IR_ORDER[k]}) = 1
        /\ NumChannels(hesuvi) = NumChannels(standard)
        /\ \A k \in 1..NumChannels(standard) :
             Occurrences(hesuvi, standard.tracks[k]) = Occurrences(standard, standard.tracks[k])

\* C7's case: an output whose center pair holds two different responses
C7_Witness ==
    /\ "out/hesuvi.wav" \in out
    /\ standard.tracks[5] # standard.tracks[6]
    /\ Cardinality({standard.tracks[k] : k \in 1..NumChannels(standard)}) >= 4

\* The tracks of channel pair q (0-based) of the responses
LeftOf(q) == split_to_mono(responses)[2 * q + 1]

RightOf(q) == split_to_mono(responses)[2 * q + 2]

AtOrBelow(seg) == SegRms(seg) <= RmsThreshold

\* The pairs the loop has passed, and the pair it was at when it raised
Passed == 0..((i \div 2) - 1)

RaisedInCrop == pc = "raised" /\ err \in {"ValueError: direction", "IndexError: no peak"}

\* C10 as stated: the pairs that bypass cropping, peak detection and the
\* direction check are exactly the pairs whose two ears are both at or below
\* the threshold, and each still fills its two slots.
C10_BypassBothQuiet ==
    pc \in {"crop", "equalize", "done", "raised"} =>
        /\ \A q \in Passed : (q \in bypassed) <=> (AtOrBelow(LeftOf(q)) /\ AtOrBelow(RightOf(q)))
        /\ Len(cropped) = 2 * Cardinality(Passed)

\* C10 as amended: the bypassing pairs are exactly the pairs with at least one
\* ear at or below the threshold; each fills its two slots, with the first
\* millisecond of its own two tracks; a pair that reaches cropping and the
\* direction check has both ears above the threshold.
C10_BypassEitherQuiet ==
    pc \in {"crop", "equalize", "done", "raised"} =>
        /\ bypassed \subseteq Passed
        /\ \A q \in Passed : (q \in bypassed) <=> (AtOrBelow(LeftOf(q)) \/ AtOrBelow(RightOf(q)))
        /\ Len(cropped) = 2 * Cardinality(Passed)
        /\ \A q \in bypassed :
             /\ cropped[2 * q + 1] = Placeholder(LeftOf(q))
             /\ cropped[2 * q + 2] = Placeholder(RightOf(q))
        /\ RaisedInCrop =>
             ~(AtOrBelow(LeftOf(i \div 2)) \/ AtOrBelow(RightOf(i \div 2)))

\* C10's case: a run through all pairs with a pair bypassed for one ear that
\* is exactly at the threshold, and a pair that was cropped
C10_Witness ==
    /\ pc = "done"
    /\ \E q \in bypassed : ~AtOrBelow(LeftOf(q)) /\ SegRms(RightOf(q)) = RmsThreshold
    /\ \E q \in Passed : q \notin bypassed

-----------------------------------------------------------------------------
(* Claims about the stages of main (Spec) *)

RequiredSupplied ==
    /\ args.preprocess =>
         args.speakers /\ args.recording /\ args.test /\ args.silence_length
    /\ args.deconvolve => args.recording /\ args.test
    /\ args.postprocess => args.speakers /\ (args.responses \/ args.deconvolve)

RequestedOutputs ==
    (IF args.preprocess THEN {"out/preprocessed.wav", "out/tests.wav"} ELSE {})
    \cup (IF args.deconvolve THEN {"out/responses.wav"} ELSE {})
    \cup (IF args.postprocess THEN {"out/hrir.wav", "out/hesuvi.wav"} ELSE {})

\* Errors that the content of the input files raises
ContentErrors ==
    {"ValueError: sampling frequencies", "ValueError: direction", "IndexError: no peak",
     "ValueError: truth value"}

\* C8: each stage is independently invocable: with the parameters of every
\* requested stage supplied, main runs every requested stage to its output
\* file whatever the other stage flags are (runs that the content of the
\* input files stops are left aside).
C8_StagesIndependent ==
    (/\ pc \in {"done", "raised"}
     /\ ~args.measure
     /\ ~args.equalize
     /\ RequiredSupplied
     /\ err \notin ContentErrors) => RequestedOutputs \subseteq out

\* C9: when main fails on the sample-rate mismatch of recording and test
\* stimulus, no output file has been written in that invocation.
C9_NoOutputOnRateMismatch ==
    err = "ValueError: sampling frequencies" => out = {}

=============================================================================
